---- MODULE Spec2Model ----
(***************************************************************************)
(* Collaborative canvas: the server's RoomManager (rooms.js), the          *)
(* socket.io gateway (server/index.js) and the browser client's operation  *)
(* log (client/main.js).                                                   *)
(*                                                                         *)
(* JavaScript values are modelled as follows.                              *)
(*   - A string field that is absent, undefined, null or "" is the empty   *)
(*     string: all of them are falsy, and the code only tests truthiness.  *)
(*   - A payload is a record [kind, targetOpID, body]: kind "object" is a  *)
(*     JSON object, "null" is null, "undefined" is an absent (or falsy)    *)
(*     payload of a raw message, "rawop" is a stored payload that is the   *)
(*     raw message itself (rooms.js line 178).                             *)
(*   - timestamp (Date.now()) is informational and is left out.            *)
(*   - Every handler runs to completion (one JavaScript task), so each is  *)
(*     one action; socket.io serialises a message when it is emitted, so   *)
(*     a message in flight is a snapshot.                                  *)
(***************************************************************************)
EXTENDS Integers, Sequences, FiniteSets, TLC

\* ------------------------------------------------------------------ bounds
\* appendOp calls explored, over all rooms together
MaxOps == 4
\* appendOp calls explored while browsers are attached
MaxClientOps == 3
\* messages in flight to one browser when it sends join_room again
MaxQueue == 1
\* appendOp calls explored while peers join and leave both rooms
MaxRoomOps == 3
\* appendOp calls explored on top of a log that is already there
MaxTail == 1
\* pointermove events explored in one drawing gesture
MaxMoves == 2

\* ------------------------------------------------------- program constants
ROOM_ID == "room1"
DefaultRoom == "room1"
HistoryLimit == 500
PadWidth == 6

\* ------------------------------------------------------------------ inputs
Browsers == {"b1", "b2"}
RawSockets == {"x1", "x2"}
Sockets == Browsers \cup RawSockets
RoomIds == {"room1", "room2"}
\* the rooms socket.io knows: the rooms of join_room, and for every connection the room
\* named by its socket id, which the socket is in from 'connection' to 'disconnect'
SioRooms == RoomIds \cup Sockets

VARIABLES
    rooms,      \* RoomManager.rooms: roomId -> [clients, ops, seq, opMap]
    sio,        \* socket.io rooms: roomId -> set of sockets that joined it
    closed,     \* sockets whose disconnect handler has run
    outbox,     \* per browser: messages emitted to it, not yet handled (FIFO)
    app_ops,    \* per browser: app.ops, the client's local operation log
    app_draw,   \* per browser: the drawing gesture in progress (app.drawing, ...)
    received,   \* per room: the raw 'op' messages handed to appendOp, in order
    last,       \* the handler call made by the last server step, and what it emitted
    clear_req   \* the undo requests of a confirmed Clear click that the server has yet to
                \* process, and what the room's log held at the click

vars == <<rooms, sio, closed, outbox, app_ops, app_draw, received, last, clear_req>>

\* ------------------------------------------------------------- JS helpers
\* String(seq).padStart(6, '0')
PadStart(s, width) ==
    IF Len(s) >= width THEN s ELSE SubSeq("000000", 1, width - Len(s)) \o s

\* `${roomId}::${String(seq).padStart(6, '0')}`
MakeOpID(roomId, seq) == roomId \o "::" \o PadStart(ToString(seq), PadWidth)

NoPayload == [kind |-> "undefined", targetOpID |-> "", body |-> ""]
NullPayload == [kind |-> "null", targetOpID |-> "", body |-> ""]
ObjPayload(t, b) == [kind |-> "object", targetOpID |-> t, body |-> b]

\* a raw 'op' message as the gateway receives it
RawOp(roomId, type, payload, topTarget) ==
    [present |-> TRUE, roomId |-> roomId, type |-> type, payload |-> payload,
     targetOpID |-> topTarget]
\* socket.emit('op') with no argument, or with null
AbsentOp ==
    [present |-> FALSE, roomId |-> "", type |-> "", payload |-> NoPayload,
     targetOpID |-> ""]

\* opRaw.payload || opRaw.payload === null ? opRaw.payload : opRaw
StampPayload(opRaw) ==
    IF opRaw.payload.kind \in {"object", "null"}
    THEN opRaw.payload
    ELSE [kind |-> "rawop", targetOpID |-> opRaw.targetOpID, body |-> opRaw.type]

\* payload && payload.targetOpID, as a truthiness test: "" when falsy
TargetOf(payload) == IF payload.kind = "null" THEN "" ELSE payload.targetOpID

\* --------------------------------------------------------- RoomManager
NewRoom == [clients |-> {}, ops |-> <<>>, seq |-> 0, opMap |-> <<>>]

\* mutant: the room record is set without testing whether the room exists
Ensure_Fresh(rs, roomId) == (roomId :> NewRoom) @@ rs

\* _ensure(roomId)
Ensure(rs, roomId) ==
    IF roomId \in DOMAIN rs THEN rs ELSE (roomId :> NewRoom) @@ rs

\* addClient(roomId, socketId, username, color)
AddClient(rs, roomId, socketId) ==
    LET r0 == Ensure(rs, roomId)
    IN  [r0 EXCEPT ![roomId].clients = @ \cup {socketId}]

\* mutant: every room is reported, whether it held the socket or not
RoomsLeft_AllRooms(rs, socketId) == DOMAIN rs

\* removeClientBySocket(socketId): the rooms it returns
RoomsLeft(rs, socketId) == {r \in DOMAIN rs : socketId \in rs[r].clients}

\* mutant: the walk over the rooms stops at the first room that held the socket
RemoveClientBySocket_FirstOnly(rs, socketId) ==
    LET held == {r \in DOMAIN rs : socketId \in rs[r].clients}
        first == IF "room1" \in held THEN "room1" ELSE CHOOSE r \in held : TRUE
    IN  IF held = {} THEN rs
        ELSE [rs EXCEPT ![first].clients = @ \ {socketId}]

\* removeClientBySocket(socketId): the registry afterwards
RemoveClientBySocket(rs, socketId) ==
    [r \in DOMAIN rs |-> [rs[r] EXCEPT !.clients = @ \ {socketId}]]

\* getClients(roomId): the registry afterwards (it calls _ensure)
GetClients(rs, roomId) == Ensure(rs, roomId)[roomId].clients

\* mutant: the window is taken from the start of the log
Slice_FromStart(ops, limit) ==
    SubSeq(ops, 1, IF limit < Len(ops) THEN limit ELSE Len(ops))

\* room.ops.slice(Math.max(0, room.ops.length - limit))
Slice(ops, limit) ==
    LET from == IF Len(ops) - limit > 0 THEN Len(ops) - limit ELSE 0
    IN  SubSeq(ops, from + 1, Len(ops))

\* mutant: the history is served from copies taken when each operation was appended
GetHistory_AppendTimeCopies(rs, roomId, limit) ==
    LET h == Slice(Ensure(rs, roomId)[roomId].ops, limit)
    IN  [k \in 1..Len(h) |-> [h[k] EXCEPT !.active = TRUE]]

\* getHistory(roomId, limit): the value returned
GetHistory(rs, roomId, limit) == Slice(Ensure(rs, roomId)[roomId].ops, limit)

\* mutant: the counter is bumped twice
NextSeq_Twice(room) == room.seq + 2

\* const seq = ++room.seq
NextSeq(room) == room.seq + 1

\* mutant: the scan runs forward and stops at the first active stroke
LastActiveStroke_Forward(ops) ==
    LET hits == {i \in 1..Len(ops) : ops[i].type = "stroke" /\ ops[i].active}
    IN  IF hits = {} THEN 0 ELSE CHOOSE i \in hits : \A j \in hits : i <= j

\* mutant: the scan stops at the last stroke, active or not
LastActiveStroke_AnyStroke(ops) ==
    LET hits == {i \in 1..Len(ops) : ops[i].type = "stroke"}
    IN  IF hits = {} THEN 0 ELSE CHOOSE i \in hits : \A j \in hits : j <= i

\* the backward scan of the undo branch: index of the last active stroke, 0 if none
LastActiveStroke(ops) ==
    LET hits == {i \in 1..Len(ops) : ops[i].type = "stroke" /\ ops[i].active}
    IN  IF hits = {} THEN 0 ELSE CHOOSE i \in hits : \A j \in hits : j <= i

\* mutant: an undone target also has its payload released
SetActiveByID_DropPayload(room, targetOpID, flag) ==
    IF targetOpID \in DOMAIN room.opMap
    THEN [room EXCEPT !.ops[room.opMap[targetOpID]].active = flag,
                      !.ops[room.opMap[targetOpID]].payload =
                            IF flag THEN @ ELSE NullPayload]
    ELSE room

\* mutant: a target that is not in the index falls back to the latest active stroke
SetActiveByID_Fallback(room, targetOpID, flag) ==
    IF targetOpID \in DOMAIN room.opMap
    THEN [room EXCEPT !.ops[room.opMap[targetOpID]].active = flag]
    ELSE IF LastActiveStroke(room.ops) # 0
         THEN [room EXCEPT !.ops[LastActiveStroke(room.ops)].active = flag]
         ELSE room

\* room.opMap.get(targetOpID) followed by target.active = flag
SetActiveByID(room, targetOpID, flag) ==
    IF targetOpID \in DOMAIN room.opMap
    THEN [room EXCEPT !.ops[room.opMap[targetOpID]].active = flag]
    ELSE room

\* mutant: the scan records its target but leaves the stroke active
UndoBranch_KeepActive(room, payload) ==
    LET targetOpID == TargetOf(payload)
        i == LastActiveStroke(room.ops)
    IN  IF targetOpID # ""
        THEN [room |-> SetActiveByID(room, targetOpID, FALSE), payload |-> payload]
        ELSE IF i # 0
             THEN [room |-> room,
                   payload |-> [kind |-> "object", targetOpID |-> room.ops[i].opID,
                                body |-> ""]]
             ELSE [room |-> room, payload |-> payload]

\* mutant: the scan deactivates its target but does not record it in the payload
UndoBranch_NoRecord(room, payload) ==
    LET targetOpID == TargetOf(payload)
        i == LastActiveStroke(room.ops)
    IN  IF targetOpID # ""
        THEN [room |-> SetActiveByID(room, targetOpID, FALSE), payload |-> payload]
        ELSE IF i # 0
             THEN [room |-> [room EXCEPT !.ops[i].active = FALSE], payload |-> payload]
             ELSE [room |-> room, payload |-> payload]

\* mutant: the scan has no break and deactivates every active stroke, recording the
\* last one it met
UndoBranch_NoBreak(room, payload) ==
    LET targetOpID == TargetOf(payload)
        hits == {i \in 1..Len(room.ops) : room.ops[i].type = "stroke" /\ room.ops[i].active}
    IN  IF targetOpID # ""
        THEN [room |-> SetActiveByID(room, targetOpID, FALSE), payload |-> payload]
        ELSE IF hits # {}
             THEN [room |-> [room EXCEPT !.ops =
                                [i \in 1..Len(room.ops) |->
                                    IF i \in hits THEN [room.ops[i] EXCEPT !.active = FALSE]
                                    ELSE room.ops[i]]],
                   payload |-> [kind |-> "object",
                                targetOpID |->
                                    room.ops[CHOOSE i \in hits : \A j \in hits : i <= j].opID,
                                body |-> ""]]
             ELSE [room |-> room, payload |-> payload]

\* the undo branch of appendOp: the room and the stamped payload afterwards
UndoBranch(room, payload) ==
    LET targetOpID == TargetOf(payload)
        i == LastActiveStroke(room.ops)
    IN  IF targetOpID # ""
        THEN [room |-> SetActiveByID(room, targetOpID, FALSE), payload |-> payload]
        ELSE IF i # 0
             THEN [room |-> [room EXCEPT !.ops[i].active = FALSE],
                   payload |-> [kind |-> "object", targetOpID |-> room.ops[i].opID,
                                body |-> ""]]
             ELSE [room |-> room, payload |-> payload]

\* mutant: the redo branch clears the flag as the undo branch does
RedoBranch_Clears(room, payload) ==
    LET targetOpID == TargetOf(payload)
    IN  IF targetOpID # "" THEN SetActiveByID(room, targetOpID, FALSE) ELSE room

\* mutant: a redo without a target looks for the most recently logged inactive stroke
RedoBranch_ImplicitSearch(room, payload) ==
    LET targetOpID == TargetOf(payload)
        hits == {i \in 1..Len(room.ops) : room.ops[i].type = "stroke" /\ ~room.ops[i].active}
    IN  IF targetOpID # "" THEN SetActiveByID(room, targetOpID, TRUE)
        ELSE IF hits = {} THEN room
        ELSE [room EXCEPT !.ops[CHOOSE i \in hits : \A j \in hits : j <= i].active = TRUE]

\* the redo branch of appendOp: the room afterwards
RedoBranch(room, payload) ==
    LET targetOpID == TargetOf(payload)
    IN  IF targetOpID # "" THEN SetActiveByID(room, targetOpID, TRUE) ELSE room

\* mutant: only strokes are entered in the index
Push_StrokesOnly(room, stamped) ==
    [room EXCEPT !.ops = Append(@, stamped),
                 !.opMap = IF stamped.type = "stroke"
                           THEN (stamped.opID :> (Len(room.ops) + 1)) @@ @
                           ELSE @]

\* room.ops.push(stamped); room.opMap.set(stamped.opID, stamped)
Push(room, stamped) ==
    [room EXCEPT !.ops = Append(@, stamped),
                 !.opMap = (stamped.opID :> (Len(room.ops) + 1)) @@ @]

\* the registry with the flag of the operation carrying targetOpID set in every room
SetActiveEverywhere(rs, targetOpID, flag) ==
    [r \in DOMAIN rs |-> SetActiveByID(rs[r], targetOpID, flag)]

\* mutant: one identifier index serves all rooms, so a target is found wherever it
\* was logged
AppendOp_SharedIndex(rs, roomId, opRaw, socketId) ==
    LET r0 == Ensure(rs, roomId)
        payload == StampPayload(opRaw)
        r1 == IF opRaw.type \in {"undo", "redo"} /\ TargetOf(payload) # ""
              THEN SetActiveEverywhere(r0, TargetOf(payload), opRaw.type = "redo")
              ELSE r0
        room == r1[roomId]
        seq == NextSeq(room)
        res == IF opRaw.type = "undo" THEN UndoBranch(room, payload)
               ELSE [room |-> room, payload |-> payload]
        stamped ==
            [seq |-> seq, opID |-> MakeOpID(roomId, seq), clientId |-> socketId,
             type |-> opRaw.type, payload |-> res.payload, active |-> TRUE]
    IN  [r1 EXCEPT ![roomId] = Push([res.room EXCEPT !.seq = seq], stamped)]

\* appendOp(roomId, opRaw, socketId): the registry afterwards
AppendOp(rs, roomId, opRaw, socketId) ==
    LET r0 == Ensure(rs, roomId)
        room == r0[roomId]
        seq == NextSeq(room)
        opID == MakeOpID(roomId, seq)
        payload == StampPayload(opRaw)
        res == IF opRaw.type = "undo" THEN UndoBranch(room, payload)
               ELSE IF opRaw.type = "redo"
                    THEN [room |-> RedoBranch(room, payload), payload |-> payload]
                    ELSE [room |-> room, payload |-> payload]
        stamped ==
            [seq |-> seq, opID |-> opID, clientId |-> socketId, type |-> opRaw.type,
             payload |-> res.payload, active |-> TRUE]
    IN  [r0 EXCEPT ![roomId] = Push([res.room EXCEPT !.seq = seq], stamped)]

\* the value appendOp returns: the object it pushed
Stamped(rs, roomId) == rs[roomId].ops[Len(rs[roomId].ops)]

\* ------------------------------------------------------------ client
\* applyStampedOp(op): app.ops afterwards
SetLocalActive(ops, target, flag) ==
    [k \in 1..Len(ops) |->
        IF ops[k].opID = target THEN [ops[k] EXCEPT !.active = flag] ELSE ops[k]]

\* mutant: the op is pushed and applied without looking for its opID in app.ops
ApplyStampedOp_NoDedupe(ops, op) ==
    LET pushed == Append(ops, op)
        target == TargetOf(op.payload)
    IN  IF op.type = "undo" /\ target # ""
        THEN SetLocalActive(pushed, target, FALSE)
        ELSE IF op.type = "redo" /\ target # ""
             THEN SetLocalActive(pushed, target, TRUE)
             ELSE pushed

ApplyStampedOp(ops, op) ==
    IF \E k \in 1..Len(ops) : ops[k].opID = op.opID
    THEN ops
    ELSE LET pushed == Append(ops, op)
             target == TargetOf(op.payload)
         IN  IF op.type = "undo" /\ target # ""
             THEN SetLocalActive(pushed, target, FALSE)
             ELSE IF op.type = "redo" /\ target # ""
                  THEN SetLocalActive(pushed, target, TRUE)
                  ELSE pushed

\* syncOpsFromServer(serverOps): app.ops afterwards
SyncOpsFromServer(serverOps) == serverOps

\* redrawAll: the opIDs of the strokes it composites
Visible(ops) ==
    {ops[k].opID : k \in {j \in 1..Len(ops) : ops[j].type = "stroke" /\ ops[j].active # FALSE}}

\* ------------------------------------------------------------ gateway
\* io.to(roomId).emit(ev, data): the queues afterwards
Broadcast(q, roomId, members, msg) ==
    [b \in Browsers |-> IF b \in members THEN Append(q[b], msg) ELSE q[b]]

TotalOps == LET S[R \in SUBSET DOMAIN rooms] ==
                    IF R = {} THEN 0
                    ELSE LET r == CHOOSE x \in R : TRUE
                         IN  rooms[r].seq + S[R \ {r}]
            IN  S[DOMAIN rooms]

NoCall == [ev |-> "none", socket |-> "", roomId |-> "", raw |-> AbsentOp,
           dropped |-> FALSE, emits |-> {}]

\* app.drawing, app.currentPoints.length and app.lastSendTime # 0 of a page that has
\* not drawn yet; moves and produced observe the gesture: the pointermoves it had
\* and the opIDs the server gave its chunks
NoGesture == [drawing |-> FALSE, points |-> 0, sent |-> FALSE, moves |-> 0, produced |-> {}]

\* no Clear click yet
NoClear == [by |-> "", n |-> 0, base |-> 0, targets |-> {}]

\* io.on('connection', ...): every socket is connected, and in the room of its own id
Connected == [r \in SioRooms |-> IF r \in Sockets THEN {r} ELSE {}]

Init ==
    /\ rooms = <<>>
    /\ sio = Connected
    /\ closed = {}
    /\ outbox = [b \in Browsers |-> <<>>]
    /\ app_ops = [b \in Browsers |-> <<>>]
    /\ app_draw = [b \in Browsers |-> NoGesture]
    /\ received = [r \in SioRooms |-> <<>>]
    /\ last = NoCall
    /\ clear_req = NoClear

\* socket.on('join_room', ...)
JoinRoom(s, rid) ==
    LET roomId == IF rid = "" THEN DefaultRoom ELSE rid
        rs1 == AddClient(rooms, roomId, s)
        members == sio[roomId] \cup {s}
        history == GetHistory(rs1, roomId, HistoryLimit)
    IN  /\ s \notin closed
        /\ rooms' = rs1
        /\ sio' = [sio EXCEPT ![roomId] = members]
        /\ outbox' = [b \in Browsers |->
                        IF b = s THEN Append(outbox[b], [ev |-> "history", ops |-> history])
                        ELSE outbox[b]]
        /\ last' = [ev |-> "join_room", socket |-> s, roomId |-> roomId, raw |-> AbsentOp,
                    dropped |-> FALSE,
                    emits |-> {[ev |-> "joined", room |-> roomId, to |-> {s}],
                               [ev |-> "presence", room |-> roomId, to |-> members,
                                clients |-> GetClients(rs1, roomId)],
                               [ev |-> "history", room |-> roomId, to |-> {s}]}]
        /\ UNCHANGED <<closed, app_ops, app_draw, received, clear_req>>

\* mutant: only an absent message is rejected
Malformed_AbsentOnly(op) == ~op.present

\* !op || !op.type
Malformed(op) == ~op.present \/ op.type = ""

\* socket.on('op', ...)
Op(s, op) ==
    /\ s \notin closed
    /\ IF Malformed(op)
       THEN /\ last' = [ev |-> "op", socket |-> s, roomId |-> "", raw |-> op,
                        dropped |-> TRUE, emits |-> {}]
            /\ UNCHANGED <<rooms, outbox, received>>
       ELSE LET roomId == IF op.roomId = "" THEN DefaultRoom ELSE op.roomId
                rs1 == AppendOp(rooms, roomId, op, s)
                stamped == Stamped(rs1, roomId)
            IN  /\ rooms' = rs1
                /\ received' = [received EXCEPT ![roomId] = Append(@, op)]
                /\ outbox' = Broadcast(outbox, roomId, sio[roomId],
                                       [ev |-> "op", op |-> stamped])
                /\ last' = [ev |-> "op", socket |-> s, roomId |-> roomId, raw |-> op,
                            dropped |-> FALSE,
                            emits |-> {[ev |-> "op", room |-> roomId, to |-> sio[roomId]]}]
    /\ UNCHANGED <<sio, closed, app_ops, app_draw, clear_req>>

\* mutant: cursor positions go through the operation log like any other operation
Cursor_Logged(s, rid) ==
    LET roomId == IF rid = "" THEN DefaultRoom ELSE rid
        others == sio[roomId] \ {s}
        raw == RawOp(roomId, "cursor", ObjPayload("", ""), "")
    IN  /\ s \notin closed
        /\ rooms' = AppendOp(rooms, roomId, raw, s)
        /\ received' = [received EXCEPT ![roomId] = Append(@, raw)]
        /\ outbox' = Broadcast(outbox, roomId, others, [ev |-> "peer_cursor", clientId |-> s])
        /\ last' = [ev |-> "cursor", socket |-> s, roomId |-> roomId, raw |-> AbsentOp,
                    dropped |-> FALSE,
                    emits |-> {[ev |-> "peer_cursor", room |-> roomId, to |-> others]}]
        /\ UNCHANGED <<sio, closed, app_ops, app_draw, clear_req>>

\* socket.on('cursor', ...): socket.to(roomId) reaches the room's members but the sender
Cursor(s, rid) ==
    LET roomId == IF rid = "" THEN DefaultRoom ELSE rid
        others == sio[roomId] \ {s}
    IN  /\ s \notin closed
        /\ outbox' = Broadcast(outbox, roomId, others, [ev |-> "peer_cursor", clientId |-> s])
        /\ last' = [ev |-> "cursor", socket |-> s, roomId |-> roomId, raw |-> AbsentOp,
                    dropped |-> FALSE,
                    emits |-> {[ev |-> "peer_cursor", room |-> roomId, to |-> others]}]
        /\ UNCHANGED <<rooms, sio, closed, app_ops, app_draw, received, clear_req>>

\* socket.on('disconnect', ...)
Disconnect(s) ==
    LET leftRooms == RoomsLeft(rooms, s)
        rs1 == RemoveClientBySocket(rooms, s)
    IN  /\ s \notin closed
        /\ closed' = closed \cup {s}
        /\ rooms' = rs1
        /\ sio' = [r \in SioRooms |-> sio[r] \ {s}]
        /\ outbox' = [b \in Browsers |-> IF b = s THEN <<>> ELSE outbox[b]]
        /\ last' = [ev |-> "disconnect", socket |-> s, roomId |-> "", raw |-> AbsentOp,
                    dropped |-> FALSE,
                    emits |-> {[ev |-> "presence", room |-> r, to |-> sio[r] \ {s},
                                clients |-> GetClients(rs1, r)] : r \in leftRooms}]
        /\ UNCHANGED <<app_ops, app_draw, received, clear_req>>

\* socket.on('history', ...), socket.on('op', ...) and socket.on('peer_cursor', ...)
\* of the client
Deliver(b) ==
    /\ outbox[b] # <<>>
    /\ LET msg == Head(outbox[b])
       IN  app_ops' = [app_ops EXCEPT ![b] =
                          IF msg.ev = "history" THEN SyncOpsFromServer(msg.ops)
                          ELSE IF msg.ev = "op" THEN ApplyStampedOp(@, msg.op)
                          ELSE @]
    /\ outbox' = [outbox EXCEPT ![b] = Tail(@)]
    /\ UNCHANGED <<rooms, sio, closed, app_draw, received, last, clear_req>>

\* socket.on('op', ...) of the client, run once more with an op the client already
\* holds: the message is the op as the gateway emitted it, stamped with active: true
Redeliver(b) ==
    \E k \in 1..Len(app_ops[b]) :
        LET op == [app_ops[b][k] EXCEPT !.active = TRUE]
        IN  /\ app_ops' = [app_ops EXCEPT ![b] = ApplyStampedOp(@, op)]
            /\ last' = [ev |-> "redeliver", socket |-> b, roomId |-> "", raw |-> AbsentOp,
                        dropped |-> FALSE, emits |-> {}, opID |-> op.opID]
            /\ UNCHANGED <<rooms, sio, closed, outbox, app_draw, received, clear_req>>

\* ------------------------------------------------- client: drawing gesture
\* the op sendStrokeChunk(finalize) emits
Chunk(finalize) ==
    RawOp(ROOM_ID, "stroke", ObjPayload("", IF finalize THEN "final" ELSE "chunk"), "")

\* canvas 'pointerdown'
PointerDown(b) ==
    /\ b \notin closed
    /\ app_draw' = [app_draw EXCEPT ![b] =
                       [drawing |-> TRUE, points |-> 1, sent |-> FALSE, moves |-> 0,
                        produced |-> {}]]
    /\ UNCHANGED <<rooms, sio, closed, outbox, app_ops, received, last, clear_req>>

\* canvas 'pointermove', with the server's handling of what it emits: a cursor
\* message always and, while drawing, a stroke chunk when none was sent since
\* pointerdown or more than sendThrottleMs have elapsed since the last one
PointerMove(b, elapsed) ==
    LET d == app_draw[b]
        others == sio[ROOM_ID] \ {b}
        q1 == Broadcast(outbox, ROOM_ID, others, [ev |-> "peer_cursor", clientId |-> b])
        send == d.drawing /\ (~d.sent \/ elapsed)
        raw == Chunk(FALSE)
        rs1 == AppendOp(rooms, ROOM_ID, raw, b)
        stamped == Stamped(rs1, ROOM_ID)
    IN  /\ b \notin closed
        /\ d.drawing => d.moves < MaxMoves
        /\ send => TotalOps < MaxClientOps
        /\ IF send
           THEN /\ rooms' = rs1
                /\ received' = [received EXCEPT ![ROOM_ID] = Append(@, raw)]
                /\ outbox' = Broadcast(q1, ROOM_ID, sio[ROOM_ID],
                                       [ev |-> "op", op |-> stamped])
                /\ last' = [ev |-> "op", socket |-> b, roomId |-> ROOM_ID, raw |-> raw,
                            dropped |-> FALSE,
                            emits |-> {[ev |-> "op", room |-> ROOM_ID,
                                        to |-> sio[ROOM_ID]]}]
           ELSE /\ outbox' = q1
                /\ last' = [ev |-> "cursor", socket |-> b, roomId |-> ROOM_ID,
                            raw |-> AbsentOp, dropped |-> FALSE,
                            emits |-> {[ev |-> "peer_cursor", room |-> ROOM_ID,
                                        to |-> others]}]
                /\ UNCHANGED <<rooms, received>>
        /\ app_draw' = [app_draw EXCEPT ![b] =
                           IF d.drawing
                           THEN [d EXCEPT !.points = @ + 1, !.moves = @ + 1,
                                          !.sent = @ \/ send,
                                          !.produced = IF send THEN @ \cup {stamped.opID}
                                                       ELSE @]
                           ELSE d]
        /\ UNCHANGED <<sio, closed, app_ops, clear_req>>

\* canvas 'pointerup', with the server's handling of the final chunk it emits
PointerUp(b) ==
    LET d == app_draw[b]
        raw == Chunk(TRUE)
        rs1 == AppendOp(rooms, ROOM_ID, raw, b)
        stamped == Stamped(rs1, ROOM_ID)
    IN  /\ b \notin closed
        /\ d.drawing
        /\ TotalOps < MaxClientOps
        /\ rooms' = rs1
        /\ received' = [received EXCEPT ![ROOM_ID] = Append(@, raw)]
        /\ outbox' = Broadcast(outbox, ROOM_ID, sio[ROOM_ID], [ev |-> "op", op |-> stamped])
        /\ last' = [ev |-> "op", socket |-> b, roomId |-> ROOM_ID, raw |-> raw,
                    dropped |-> FALSE,
                    emits |-> {[ev |-> "op", room |-> ROOM_ID, to |-> sio[ROOM_ID]]}]
        /\ app_draw' = [app_draw EXCEPT ![b] =
                           [d EXCEPT !.drawing = FALSE, !.points = 0,
                                     !.produced = @ \cup {stamped.opID}]]
        /\ UNCHANGED <<sio, closed, app_ops, clear_req>>


\* ------------------------------------------------------- explored inputs
\* sendStrokeChunk (main.js 334-351) and requestUndo (main.js 354-357)
Stroke(r) == RawOp(r, "stroke", ObjPayload("", "points"), "")
UndoLast(r) == RawOp(r, "undo", ObjPayload("", ""), "")
Targets == {"room1::000001", "room2::000001"}
\* messages a peer can put on the wire; roomId "" is an absent roomId
CoreOps ==
    {Stroke("room1"), Stroke("room2"), UndoLast("room1")}
    \cup {RawOp("", "undo", ObjPayload(t, ""), "") : t \in Targets}
    \cup {RawOp("", "redo", ObjPayload("room1::000001", ""), ""),
          RawOp("room1", "undo", NoPayload, "room1::000001"),
          RawOp("room1", "undo", NullPayload, ""),
          RawOp("room1", "redo", ObjPayload("", ""), ""),
          RawOp("room1", "presence", ObjPayload("", ""), ""),
          RawOp("room1", "", ObjPayload("", ""), ""),
          AbsentOp}

\* The gateway and the RoomManager under traffic from two peers.
Next ==
    \/ \E op \in CoreOps : TotalOps < MaxOps /\ Op("x1", op)
    \/ \E op \in {Stroke("room1"), UndoLast("room1")} : TotalOps < MaxOps /\ Op("x2", op)
    \/ "x2" \notin sio[DefaultRoom] /\ JoinRoom("x2", "")
    \/ Disconnect("x2")

Spec == Init /\ [][Next]_vars

\* what a peer adds to the browsers' traffic: an undo and a redo that name a target
PeerOps ==
    {RawOp(ROOM_ID, ty, ObjPayload(t, ""), "") :
        ty \in {"undo", "redo"}, t \in {"room1::000001"}}

\* Browsers running main.js in ROOM_ID, next to one peer: b1 draws and undoes, b2
\* watches and may leave.
NextClient ==
    \/ \E b \in Browsers : Len(outbox[b]) < MaxQueue /\ JoinRoom(b, ROOM_ID)
    \/ \E op \in {Stroke(ROOM_ID), UndoLast(ROOM_ID)} :
            TotalOps < MaxClientOps /\ Op("b1", op)
    \/ \E op \in PeerOps : TotalOps < MaxClientOps /\ Op("x1", op)
    \/ \E b \in Browsers : Deliver(b)
    \/ Disconnect("b2")

SpecClient == Init /\ [][NextClient]_vars

\* what a peer sends while membership changes: strokes in both rooms, an undo in
\* room2, an undo and a redo in room1 that name an operation of room2, and 'op'
\* messages typed presence and cursor
RoomOps ==
    {Stroke("room1"), Stroke("room2"), UndoLast("room2"),
     RawOp("room1", "undo", ObjPayload("room2::000001", ""), ""),
     RawOp("room1", "redo", ObjPayload("room2::000001", ""), ""),
     RawOp("room1", "presence", ObjPayload("", ""), ""),
     RawOp("room2", "cursor", ObjPayload("", ""), "")}

\* Two peers joining and leaving both rooms, with cursor traffic and a few operations.
NextRooms ==
    \/ \E s \in RawSockets, r \in RoomIds : JoinRoom(s, r)
    \/ \E s \in RawSockets : Disconnect(s)
    \/ \E s \in RawSockets, r \in RoomIds : Cursor(s, r)
    \/ \E op \in RoomOps : TotalOps < MaxRoomOps /\ Op("x1", op)

SpecRooms == Init /\ [][NextRooms]_vars

\* A log that is already there when exploration starts: n strokes sent by peer x1 to
\* ROOM_ID, as n calls of appendOp leave them.
SeedOps(n) ==
    [i \in 1..n |->
        [seq |-> i, opID |-> MakeOpID(ROOM_ID, i), clientId |-> "x1", type |-> "stroke",
         payload |-> StampPayload(Stroke(ROOM_ID)), active |-> TRUE]]

SeedRooms(n) ==
    IF n = 0 THEN <<>>
    ELSE ROOM_ID :>
            [clients |-> {}, ops |-> SeedOps(n), seq |-> n,
             opMap |-> [id \in {MakeOpID(ROOM_ID, i) : i \in 1..n} |->
                          CHOOSE i \in 1..n : MakeOpID(ROOM_ID, i) = id]]

\* an empty log, and a log one entry longer than the history window
SeedLens == {0, HistoryLimit + 1}

InitHistory ==
    \E n \in SeedLens :
        /\ rooms = SeedRooms(n)
        /\ sio = Connected
        /\ closed = {}
        /\ outbox = [b \in Browsers |-> <<>>]
        /\ app_ops = [b \in Browsers |-> <<>>]
        /\ app_draw = [b \in Browsers |-> NoGesture]
        /\ received = [r \in SioRooms |->
                          IF r = ROOM_ID THEN [i \in 1..n |-> Stroke(ROOM_ID)] ELSE <<>>]
        /\ last = NoCall
        /\ clear_req = NoClear

\* appendOp calls made since the start
TailOps == IF TotalOps > HistoryLimit THEN TotalOps - (HistoryLimit + 1) ELSE TotalOps

\* rooms.getHistory(roomId, limit), called on its own
GetHistoryCall(roomId, limit) ==
    /\ rooms' = Ensure(rooms, roomId)
    /\ last' = [ev |-> "getHistory", socket |-> "", roomId |-> roomId, raw |-> AbsentOp,
                dropped |-> FALSE, emits |-> {}, limit |-> limit,
                result |-> GetHistory(rooms, roomId, limit)]
    /\ UNCHANGED <<sio, closed, outbox, app_ops, app_draw, received, clear_req>>

Limits == {0, 2, HistoryLimit}

\* A browser joining ROOM_ID late, and getHistory called with several limits.
NextHistory ==
    \/ \E op \in {Stroke(ROOM_ID), UndoLast(ROOM_ID)} : TailOps < MaxTail /\ Op("x1", op)
    \/ \E r \in RoomIds, n \in Limits : GetHistoryCall(r, n)
    \/ Len(outbox["b1"]) < MaxQueue /\ JoinRoom("b1", ROOM_ID)
    \/ Deliver("b1")

SpecHistory == InitHistory /\ [][NextHistory]_vars

\* One browser drawing gestures and pressing Undo.
NextGesture ==
    \/ Len(outbox["b1"]) < MaxQueue /\ JoinRoom("b1", ROOM_ID)
    \/ PointerDown("b1")
    \/ \E elapsed \in BOOLEAN : PointerMove("b1", elapsed)
    \/ PointerUp("b1")
    \/ TotalOps < MaxClientOps /\ Op("b1", UndoLast(ROOM_ID))
    \/ Deliver("b1")

SpecGesture == Init /\ [][NextGesture]_vars

\* ------------------------------------------ specification: the Clear button
\* the log of room r in the RoomManager state rs
OpsOf(rs, r) == IF r \in DOMAIN rs THEN rs[r].ops ELSE <<>>
\* the opIDs of the strokes of a log that the filter o.type === 'stroke' && o.active keeps
ActiveStrokes(ops) ==
    {ops[k].opID : k \in {j \in 1..Len(ops) : ops[j].type = "stroke" /\ ops[j].active = TRUE}}
\* the undo requests of connection s that the room's log holds
UndosBy(rs, s) ==
    Cardinality({k \in 1..Len(OpsOf(rs, ROOM_ID)) :
                    /\ OpsOf(rs, ROOM_ID)[k].type = "undo"
                    /\ OpsOf(rs, ROOM_ID)[k].clientId = s})

\* clearBtn 'click' handler, confirmed: one undo request is emitted per stroke that is
\* active in app.ops; targets observes the strokes active in the room's log at the click
Clear(b) ==
    /\ b \notin closed
    /\ clear_req.by = ""
    /\ clear_req' = [by |-> b,
                     n |-> Cardinality(ActiveStrokes(app_ops[b])),
                     base |-> UndosBy(rooms, b),
                     targets |-> ActiveStrokes(OpsOf(rooms, ROOM_ID))]
    /\ UNCHANGED <<rooms, sio, closed, outbox, app_ops, app_draw, received, last>>

\* the undo requests of the click that the server has not processed yet
ClearPending == clear_req.base + clear_req.n - UndosBy(rooms, clear_req.by)

\* socket.on('op', ...) of the server, for the next undo request of the click
ClearUndo(b) ==
    /\ clear_req.by = b
    /\ ClearPending > 0
    /\ Op(b, UndoLast(ROOM_ID))

\* b1 and b2 run main.js in ROOM_ID; b2 draws, b1 clicks Clear once and confirms, and
\* the server takes b1's undo requests one by one, in any order with b2's strokes.
NextClear ==
    \/ \E b \in Browsers : Len(outbox[b]) < MaxQueue /\ JoinRoom(b, ROOM_ID)
    \/ "b2" \in sio[ROOM_ID] /\ TotalOps < MaxClientOps /\ Op("b2", Stroke(ROOM_ID))
    \/ \E b \in Browsers : Deliver(b)
    \/ Clear("b1")
    \/ ClearUndo("b1")

SpecClear == Init /\ [][NextClear]_vars

\* ------------------------------------------ specification: duplicate deliveries
\* b1 runs main.js in ROOM_ID next to a peer that undoes and redoes the first stroke;
\* any op message b1 has processed may reach it again.
NextRedeliver ==
    \/ Len(outbox["b1"]) < MaxQueue /\ JoinRoom("b1", ROOM_ID)
    \/ \E op \in {Stroke(ROOM_ID), UndoLast(ROOM_ID)} : TotalOps < MaxClientOps /\ Op("b1", op)
    \/ \E op \in PeerOps : TotalOps < MaxClientOps /\ Op("x1", op)
    \/ Deliver("b1")
    \/ Redeliver("b1")

SpecRedeliver == Init /\ [][NextRedeliver]_vars

\* ------------------------------------------ specification: a peer writes to a socket
\* ops whose roomId is the socket id of b1 (the 'joined' and 'presence' messages carry
\* the ids of a room's sockets): a stroke, and an undo naming a stroke of ROOM_ID
DirectOps ==
    {Stroke("b1"), RawOp("b1", "undo", ObjPayload("room1::000001", ""), "")}

\* b1 runs main.js in ROOM_ID; the peer x1 never joins a room and addresses its ops to
\* the room of b1's socket id.
NextDirect ==
    \/ Len(outbox["b1"]) < MaxQueue /\ JoinRoom("b1", ROOM_ID)
    \/ \E op \in {Stroke(ROOM_ID), UndoLast(ROOM_ID)} : TotalOps < MaxClientOps /\ Op("b1", op)
    \/ \E op \in DirectOps : TotalOps < MaxClientOps /\ Op("x1", op)
    \/ Deliver("b1")

SpecDirect == Init /\ [][NextDirect]_vars


\* ============================================================= properties
\* the log of room r; empty while the room does not exist
LogOf(r) == IF r \in DOMAIN rooms THEN rooms[r].ops ELSE <<>>
Indices(r) == 1..Len(LogOf(r))
IsActiveStroke(o) == o.type = "stroke" /\ o.active
\* a raw message that names no target, neither in its payload nor at top level
Untargeted(raw) == raw.payload.targetOpID = "" /\ raw.targetOpID = ""
\* the target a raw message names
NamedTarget(raw) ==
    IF raw.payload.targetOpID # "" THEN raw.payload.targetOpID ELSE raw.targetOpID
\* this step is an appendOp call on room r
Appends(r) == Len(received'[r]) = Len(received[r]) + 1
\* the raw message of that call, and the entry it logged
Call(r) == received'[r][Len(received'[r])]
Logged(r) == rooms'[r].ops[Len(rooms'[r].ops)]
\* the flags of the entries logged before the step are the same after it, except at K
FlagsKeptExcept(r, K) ==
    \A k \in Indices(r) \ K : rooms'[r].ops[k].active = LogOf(r)[k].active
\* the entry is appended with the next seq
AppendedNext(r) ==
    /\ Len(rooms'[r].ops) = Len(LogOf(r)) + 1
    /\ Logged(r).seq = Len(LogOf(r)) + 1

\* C1: in every room the seq values of the log, read in log order, are 1, 2, ..., N
\* (no duplicate, no gap) and the room's counter equals the log length.
C1_SeqGapless ==
    \A r \in DOMAIN rooms :
        /\ rooms[r].seq = Len(rooms[r].ops)
        /\ Len(rooms[r].ops) = Len(received[r])
        /\ \A i \in 1..Len(rooms[r].ops) : rooms[r].ops[i].seq = i

\* a room holding a stroke, an undo and a redo from two clients while the other
\* room holds operations too
C1_Witness ==
    /\ \A r \in RoomIds : Len(LogOf(r)) > 0
    /\ \E r \in RoomIds :
          /\ \A ty \in {"stroke", "undo", "redo"} :
                \E i \in Indices(r) : LogOf(r)[i].type = ty
          /\ \E i, j \in Indices(r) : LogOf(r)[i].clientId # LogOf(r)[j].clientId

\* C2: an undo submitted without a target, while the room has an active stroke,
\* deactivates exactly the active stroke with the greatest seq and is stored with
\* that stroke's opID as payload.targetOpID.
C2_UndoLatestActive ==
    [][\A r \in RoomIds :
         (/\ Appends(r)
          /\ Call(r).type = "undo"
          /\ Untargeted(Call(r))
          /\ \E i \in Indices(r) : IsActiveStroke(LogOf(r)[i]))
         => \E i \in Indices(r) :
              /\ IsActiveStroke(LogOf(r)[i])
              /\ \A j \in Indices(r) :
                    IsActiveStroke(LogOf(r)[j]) => LogOf(r)[j].seq <= LogOf(r)[i].seq
              /\ rooms'[r].ops[i].active = FALSE
              /\ FlagsKeptExcept(r, {i})
              /\ Logged(r).type = "undo"
              /\ Logged(r).payload.targetOpID = LogOf(r)[i].opID]_vars

\* the last call was a target-less undo that passed over an inactive stroke and a
\* non-stroke operation to reach its target
C2_Witness ==
    /\ last.ev = "op" /\ ~last.dropped /\ last.raw.type = "undo" /\ Untargeted(last.raw)
    /\ LET r == last.roomId
           n == Len(LogOf(r))
       IN  \E i, j, k \in 1..n :
              /\ i < j /\ i < k /\ k < n
              /\ LogOf(r)[i].type = "stroke" /\ ~LogOf(r)[i].active
              /\ LogOf(r)[n].payload.targetOpID = LogOf(r)[i].opID
              /\ LogOf(r)[j].type = "stroke" /\ ~LogOf(r)[j].active
              /\ LogOf(r)[k].type # "stroke"

\* the entry at index i of room r is an undo that was submitted without a target
TargetlessUndo(r, i) == LogOf(r)[i].type = "undo" /\ Untargeted(received[r][i])
StoredTarget(r, i) == TargetOf(LogOf(r)[i].payload)
\* the seq of the logged operation that carries opID t
SeqOfID(r, t) == CHOOSE n \in Indices(r) : LogOf(r)[n].opID = t

\* C3: two undos submitted without a target never store the same targetOpID unless
\* a redo naming that target was appended between them; with neither a stroke nor a
\* redo appended between them, the later one targets a stroke of smaller seq.
C3_UndoTargetsDistinct ==
    \A r \in RoomIds : \A i, j \in Indices(r) :
        (/\ i < j
         /\ TargetlessUndo(r, i) /\ TargetlessUndo(r, j)
         /\ StoredTarget(r, i) # "" /\ StoredTarget(r, j) # "")
        => /\ StoredTarget(r, i) = StoredTarget(r, j)
                => \E k \in Indices(r) :
                      /\ i < k /\ k < j
                      /\ LogOf(r)[k].type = "redo"
                      /\ StoredTarget(r, k) = StoredTarget(r, i)
           /\ (\A k \in Indices(r) :
                    (i < k /\ k < j) => LogOf(r)[k].type \notin {"stroke", "redo"})
                => SeqOfID(r, StoredTarget(r, j)) < SeqOfID(r, StoredTarget(r, i))

\* two target-less undos from different clients, back to back, resolved to two strokes
C3_Witness ==
    \E r \in RoomIds : \E i \in Indices(r) :
        /\ i + 1 \in Indices(r)
        /\ LogOf(r)[i].clientId # LogOf(r)[i + 1].clientId
        /\ TargetlessUndo(r, i) /\ TargetlessUndo(r, i + 1)
        /\ StoredTarget(r, i) # "" /\ StoredTarget(r, i + 1) # ""
        /\ StoredTarget(r, i) # StoredTarget(r, i + 1)

\* the opIDs logged in room r
LoggedIDs(r) == {LogOf(r)[i].opID : i \in Indices(r)}

\* C5: a room's log only grows at its end: in every step the earlier log is a prefix
\* of the later one, and every entry keeps its seq, opID, clientId, type and payload
\* (only its active flag may change).
C5_AppendOnly ==
    [][\A r \in DOMAIN rooms :
         /\ r \in DOMAIN rooms'
         /\ Len(rooms'[r].ops) >= Len(rooms[r].ops)
         /\ \A i \in 1..Len(rooms[r].ops) :
               /\ rooms'[r].ops[i].seq = rooms[r].ops[i].seq
               /\ rooms'[r].ops[i].opID = rooms[r].ops[i].opID
               /\ rooms'[r].ops[i].clientId = rooms[r].ops[i].clientId
               /\ rooms'[r].ops[i].type = rooms[r].ops[i].type
               /\ rooms'[r].ops[i].payload = rooms[r].ops[i].payload]_vars

\* a log in which a stroke named by an explicit undo is inactive and entries follow it
C5_Witness ==
    \E r \in RoomIds : \E i, j \in Indices(r) :
        /\ i < j /\ j < Len(LogOf(r))
        /\ LogOf(r)[i].type = "stroke" /\ ~LogOf(r)[i].active
        /\ LogOf(r)[j].type = "undo" /\ ~Untargeted(received[r][j])
        /\ StoredTarget(r, j) = LogOf(r)[i].opID

\* C6: within a room no two logged operations share an opID, the opID is made of the
\* room id and the seq only, and the index agrees with the log: one entry per log
\* entry, and looking up an opID gives the logged operation that carries it.
C6_IndexAgrees ==
    \A r \in DOMAIN rooms :
        LET ops == rooms[r].ops
            opMap == rooms[r].opMap
        IN  /\ \A i, j \in 1..Len(ops) : ops[i].opID = ops[j].opID => i = j
            /\ \A i \in 1..Len(ops) : ops[i].opID = MakeOpID(r, ops[i].seq)
            /\ DOMAIN opMap = {ops[i].opID : i \in 1..Len(ops)}
            /\ Cardinality(DOMAIN opMap) = Len(ops)
            /\ \A id \in DOMAIN opMap :
                  opMap[id] \in 1..Len(ops) /\ ops[opMap[id]].opID = id

\* both rooms hold operations, one of them a stroke, an undo and a redo
C6_Witness ==
    /\ \A r \in RoomIds : r \in DOMAIN rooms /\ Cardinality(DOMAIN rooms[r].opMap) > 0
    /\ \E r \in RoomIds :
          {LogOf(r)[i].type : i \in Indices(r)} = {"stroke", "undo", "redo"}

\* C7: an undo submitted without a target while the room has no active stroke is
\* appended with the next seq, changes no active flag and is stored with no targetOpID.
C7_UndoNothingActive ==
    [][\A r \in RoomIds :
         (/\ Appends(r)
          /\ Call(r).type = "undo"
          /\ Untargeted(Call(r))
          /\ \A i \in Indices(r) : ~IsActiveStroke(LogOf(r)[i]))
         => /\ AppendedNext(r)
            /\ FlagsKeptExcept(r, {})
            /\ Logged(r).type = "undo"
            /\ TargetOf(Logged(r).payload) = ""]_vars

\* the last call was a target-less undo stored without a target, in a room whose
\* strokes are all inactive
C7_Witness ==
    /\ last.ev = "op" /\ ~last.dropped /\ last.raw.type = "undo" /\ Untargeted(last.raw)
    /\ LET r == last.roomId
       IN  /\ StoredTarget(r, Len(LogOf(r))) = ""
           /\ \E i \in Indices(r) : LogOf(r)[i].type = "stroke"
           /\ \A i \in Indices(r) : ~IsActiveStroke(LogOf(r)[i])

\* C8: an undo whose targetOpID names no operation of the room's log is appended
\* with the next seq, is stored with that same targetOpID and changes no active flag.
C8_UndoUnknownTarget ==
    [][\A r \in RoomIds :
         (/\ Appends(r)
          /\ Call(r).type = "undo"
          /\ ~Untargeted(Call(r))
          /\ NamedTarget(Call(r)) \notin LoggedIDs(r))
         => /\ AppendedNext(r)
            /\ FlagsKeptExcept(r, {})
            /\ Logged(r).type = "undo"
            /\ TargetOf(Logged(r).payload) = NamedTarget(Call(r))]_vars

\* the last call was an undo in one room naming an operation logged in the other
\* room, while its own room had an active stroke
C8_Witness ==
    /\ last.ev = "op" /\ ~last.dropped /\ last.raw.type = "undo" /\ ~Untargeted(last.raw)
    /\ LET r == last.roomId
       IN  /\ NamedTarget(last.raw) \notin {LogOf(r)[i].opID : i \in 1..(Len(LogOf(r)) - 1)}
           /\ \E q \in RoomIds \ {r} : NamedTarget(last.raw) \in LoggedIDs(q)
           /\ \E i \in Indices(r) : IsActiveStroke(LogOf(r)[i])

\* C9: a redo whose targetOpID names a logged stroke that was undone sets that
\* stroke's active flag back to true and changes no other flag, so the stroke is
\* again among the strokes a replay of the log shows.
C9_RedoReactivates ==
    [][\A r \in RoomIds :
         (Appends(r) /\ Call(r).type = "redo")
         => \A i \in Indices(r) :
              (/\ LogOf(r)[i].opID = NamedTarget(Call(r))
               /\ LogOf(r)[i].type = "stroke"
               /\ ~LogOf(r)[i].active)
              => /\ rooms'[r].ops[i].active = TRUE
                 /\ FlagsKeptExcept(r, {i})
                 /\ LogOf(r)[i].opID \in Visible(rooms'[r].ops)
                 /\ LogOf(r)[i].opID \notin Visible(LogOf(r))]_vars

\* the last call was a redo naming a stroke that an earlier undo had deactivated and
\* that is active again, next to another stroke whose flag it left alone
C9_Witness ==
    /\ last.ev = "op" /\ ~last.dropped /\ last.raw.type = "redo"
    /\ LET r == last.roomId
       IN  \E i, k, m \in Indices(r) :
              /\ LogOf(r)[i].opID = NamedTarget(last.raw)
              /\ IsActiveStroke(LogOf(r)[i])
              /\ i < k /\ LogOf(r)[k].type = "undo" /\ StoredTarget(r, k) = LogOf(r)[i].opID
              /\ m # i /\ IsActiveStroke(LogOf(r)[m])

\* C10 as stated: every undo or redo in a log carries a non-empty targetOpID
C10_AlwaysResolved ==
    \A r \in RoomIds : \A i \in Indices(r) :
        LogOf(r)[i].type \in {"undo", "redo"} => StoredTarget(r, i) # ""

\* C10, amended: an undo or redo is stored with a non-empty targetOpID, except an
\* undo submitted without a target while the room has no active stroke and a redo
\* submitted without a target: exactly those are stored without one.
C10_ResolvedUnlessNothingToResolve ==
    [][\A r \in RoomIds :
         (Appends(r) /\ Call(r).type \in {"undo", "redo"})
         => (TargetOf(Logged(r).payload) = ""
               <=> /\ Untargeted(Call(r))
                   /\ \/ Call(r).type = "redo"
                      \/ \A i \in Indices(r) : ~IsActiveStroke(LogOf(r)[i]))]_vars

\* a log with a target-less undo that was resolved, one that found nothing to undo
\* and a target-less redo
C10_Witness ==
    \E r \in RoomIds : \E i, j, k \in Indices(r) :
        /\ TargetlessUndo(r, i) /\ StoredTarget(r, i) # ""
        /\ TargetlessUndo(r, j) /\ StoredTarget(r, j) = ""
        /\ LogOf(r)[k].type = "redo" /\ StoredTarget(r, k) = ""

\* every message the server has emitted has been handled by its recipient
AllDelivered == \A b \in Browsers : outbox[b] = <<>>
LocalIDs(b) == {app_ops[b][k].opID : k \in 1..Len(app_ops[b])}

\* C4: once every message sent has been delivered, the strokes a joined client shows
\* are the operations of the server's log that are active strokes and present in the
\* client's log; two clients holding the same log show the same strokes.
C4_ClientsAgreeWithServer ==
    AllDelivered =>
        /\ \A r \in RoomIds : \A b \in Browsers \cap sio[r] :
              Visible(app_ops[b]) =
                {LogOf(r)[i].opID :
                    i \in {j \in Indices(r) : /\ IsActiveStroke(LogOf(r)[j])
                                               /\ LogOf(r)[j].opID \in LocalIDs(b)}}
        /\ \A r \in RoomIds : \A b, c \in Browsers \cap sio[r] :
              LocalIDs(b) = LocalIDs(c) => Visible(app_ops[b]) = Visible(app_ops[c])

\* C11: operations of type undo or redo have active = TRUE in every reachable state;
\* no appendOp changes the flag of an undo or redo operation.
C11_UndoRedoStayActive ==
    \A r \in RoomIds : \A i \in Indices(r) :
        LogOf(r)[i].type \in {"undo", "redo"} => LogOf(r)[i].active

Min(a, b) == IF a < b THEN a ELSE b
\* h is the last n entries of log, in log order
IsLastOf(h, log, n) ==
    /\ Len(h) = n
    /\ \A k \in 1..n : h[k] = log[Len(log) - n + k]

\* C12: getHistory(room, limit) returns the last min(limit, log length) operations of
\* the room's log in log order, the whole log when it is shorter than limit; the
\* gateway's call, without a limit, uses 500; the call changes neither the log nor
\* the counter.
C12_GetHistoryWindow ==
    [][/\ last'.ev = "getHistory"
          => LET r == last'.roomId
             IN  /\ IsLastOf(last'.result, LogOf(r), Min(last'.limit, Len(LogOf(r))))
                 /\ Len(LogOf(r)) <= last'.limit => last'.result = LogOf(r)
                 /\ rooms'[r].ops = LogOf(r)
                 /\ rooms'[r].seq = Len(LogOf(r))
                 /\ received' = received
       /\ \A b \in Browsers :
            (last'.ev = "join_room" /\ Len(outbox'[b]) = Len(outbox[b]) + 1)
            => LET r == last'.roomId
                   h == outbox'[b][Len(outbox'[b])].ops
               IN  /\ IsLastOf(h, LogOf(r), Min(HistoryLimit, Len(LogOf(r))))
                   /\ rooms'[r].ops = LogOf(r)
                   /\ rooms'[r].seq = Len(LogOf(r))]_vars

\* the last call asked for two operations of a longer log in which the window and the
\* start of the log differ, and a browser holds the 500 operations of its join
C12_Witness ==
    /\ last.ev = "getHistory" /\ last.limit = 2
    /\ Len(LogOf(last.roomId)) > HistoryLimit
    /\ Len(last.result) = 2
    /\ last.result[2].type = "undo"
    /\ Len(app_ops["b1"]) = HistoryLimit

\* the flag a replay of the log gives entry i: the last later undo or redo that names
\* it decides, and it is active when there is none
ReplayFlag(log, i) ==
    LET js == {j \in (i + 1)..Len(log) :
                  /\ log[j].type \in {"undo", "redo"}
                  /\ TargetOf(log[j].payload) = log[i].opID}
    IN  IF js = {} THEN TRUE
        ELSE log[CHOOSE j \in js : \A m \in js : m <= j].type = "redo"

\* C13: every operation getHistory returns carries the active flag it has in the
\* room's log at the time of the call, so an undo or redo appended after its target
\* was logged shows in the history message of any later joiner.
C13_HistoryHasCurrentFlags ==
    [][\A b \in Browsers :
         (last'.ev = "join_room" /\ Len(outbox'[b]) = Len(outbox[b]) + 1)
         => LET log == rooms'[last'.roomId].ops
                h == outbox'[b][Len(outbox'[b])].ops
            IN  \A k \in 1..Len(h) :
                   /\ h[k].seq \in 1..Len(log)
                   /\ h[k].opID = log[h[k].seq].opID
                   /\ h[k].active = log[h[k].seq].active
                   /\ h[k].active = ReplayFlag(log, h[k].seq)]_vars

\* the last call was a join whose history message holds a stroke that a later undo
\* deactivated, sent to a browser that joined after both were logged
C13_Witness ==
    /\ last.ev = "join_room" /\ last.socket \in Browsers
    /\ outbox[last.socket] # <<>>
    /\ app_ops[last.socket] = <<>>
    /\ LET m == outbox[last.socket][Len(outbox[last.socket])]
       IN  /\ m.ev = "history"
           /\ \E i, j \in 1..Len(m.ops) :
                 /\ i < j
                 /\ m.ops[i].type = "stroke" /\ ~m.ops[i].active
                 /\ m.ops[j].type = "undo"
                 /\ TargetOf(m.ops[j].payload) = m.ops[i].opID

\* room r is absent before and after the step, or present with the same log, counter,
\* index, flags and members
RoomUntouched(r) ==
    /\ r \in DOMAIN rooms' <=> r \in DOMAIN rooms
    /\ r \in DOMAIN rooms => rooms'[r] = rooms[r]

\* C14: an appendOp, addClient, getClients or getHistory on room A leaves the log,
\* counter, index, flags and membership of every other room unchanged; an undo or
\* redo submitted to room A that names an operation logged in room B does not change
\* that operation's flag.
C14_RoomsIndependent ==
    [][\A A \in RoomIds :
         (closed' = closed /\ last'.roomId = A)
         => \A B \in RoomIds \ {A} : RoomUntouched(B)]_vars

\* the last call was a redo in one room that names a stroke logged and undone in the
\* other room, which has a member
C14_Witness ==
    /\ last.ev = "op" /\ ~last.dropped /\ last.raw.type = "redo"
    /\ \E B \in RoomIds \ {last.roomId} :
          /\ B \in DOMAIN rooms
          /\ rooms[B].clients # {}
          /\ \E i \in Indices(B) :
                /\ LogOf(B)[i].opID = NamedTarget(last.raw)
                /\ LogOf(B)[i].type = "stroke" /\ ~LogOf(B)[i].active

\* the members of room r; none while the room does not exist
MembersOf(rs, r) == IF r \in DOMAIN rs THEN rs[r].clients ELSE {}
\* rs and rs1 hold the same rooms with the same logs, counters and indexes
SameLogs(rs, rs1) ==
    /\ DOMAIN rs1 = DOMAIN rs
    /\ \A r \in DOMAIN rs :
          /\ rs1[r].ops = rs[r].ops
          /\ rs1[r].seq = rs[r].seq
          /\ rs1[r].opMap = rs[r].opMap

\* C15: removeClientBySocket(id) removes id from every room's membership and keeps
\* the other members, returns exactly the rooms whose membership contained id,
\* returns nothing and changes nothing for an id that is in no room, so that a
\* second call right after the first is a no-op, and never changes a log or counter.
C15_RemoveClient ==
    \A id \in Sockets :
        LET rs1 == RemoveClientBySocket(rooms, id)
            left == RoomsLeft(rooms, id)
        IN  /\ SameLogs(rooms, rs1)
            /\ \A r \in DOMAIN rooms :
                  /\ id \notin rs1[r].clients
                  /\ rs1[r].clients \cup {id} = rooms[r].clients \cup {id}
                  /\ r \in left <=> rs1[r].clients # rooms[r].clients
            /\ left \subseteq DOMAIN rooms
            /\ (\A r \in RoomIds : id \notin MembersOf(rooms, r))
                  => left = {} /\ rs1 = rooms
            /\ RoomsLeft(rs1, id) = {}
            /\ RemoveClientBySocket(rs1, id) = rs1

\* a peer is in both rooms next to the other peer, one room holds operations, and a
\* third socket is in no room
C15_Witness ==
    /\ \A r \in RoomIds : MembersOf(rooms, r) = RawSockets
    /\ \E r \in RoomIds : Len(LogOf(r)) > 1
    /\ RoomsLeft(rooms, "x1") = RoomIds
    /\ RoomsLeft(rooms, "b1") = {}

\* C18: when a connection disconnects it is removed from the membership of every
\* room, and a presence broadcast carrying the updated member list is emitted for
\* exactly the rooms whose membership contained it, none for a room it never joined.
C18_DisconnectPresence ==
    [][closed' # closed
         => LET s == last'.socket
            IN  /\ last'.ev = "disconnect"
                /\ closed' = closed \cup {s}
                /\ SameLogs(rooms, rooms')
                /\ \A r \in RoomIds :
                      /\ MembersOf(rooms', r) = MembersOf(rooms, r) \ {s}
                      /\ s \notin sio'[r]
                      /\ s \in MembersOf(rooms, r)
                            <=> \E e \in last'.emits : e.ev = "presence" /\ e.room = r
                /\ \A e \in last'.emits :
                      /\ e.ev = "presence"
                      /\ e.clients = MembersOf(rooms, e.room) \ {s}
                      /\ e.to = sio[e.room] \ {s}
                /\ Cardinality(last'.emits)
                      = Cardinality({r \in RoomIds : s \in MembersOf(rooms, r)})]_vars

\* the last call was the disconnect of a peer that was in one room only, which keeps
\* another member, while the other room exists with a member and got no broadcast
C18_Witness ==
    /\ last.ev = "disconnect"
    /\ Cardinality(last.emits) = 1
    /\ \A e \in last.emits : e.clients # {} /\ e.to # {}
    /\ \E r \in RoomIds :
          /\ MembersOf(rooms, r) # {}
          /\ \A e \in last.emits : e.room # r

\* the raw message of the step's 'op' call is absent or has no type
MalformedCall == last'.ev = "op" /\ (~last'.raw.present \/ last'.raw.type = "")

\* C16: an inbound op message that is absent or has no type is dropped with no
\* effect: no room is created, no counter is incremented, no log entry is added and
\* nothing is broadcast, so later ops are stamped as if it had never arrived.
C16_MalformedDropped ==
    [][MalformedCall
         => /\ rooms' = rooms
            /\ received' = received
            /\ outbox' = outbox
            /\ sio' = sio
            /\ last'.emits = {}]_vars

\* the last call was a message without a type, sent for a room that does not exist
\* and still does not, while the other room holds operations
C16_Witness ==
    /\ last.ev = "op" /\ last.raw.present /\ last.raw.type = ""
    /\ last.raw.roomId \notin DOMAIN rooms
    /\ \E r \in RoomIds : Len(LogOf(r)) > 0

\* the counter of room r; 0 while the room does not exist
SeqOf(rs, r) == IF r \in DOMAIN rs THEN rs[r].seq ELSE 0

\* C17 as stated: no entry of any room's log has type presence or cursor
C17_NoPresenceOrCursorLogged ==
    \A r \in RoomIds : \A i \in Indices(r) :
        LogOf(r)[i].type \notin {"presence", "cursor"}

\* C17, amended: cursor messages and the presence broadcasts of join_room and
\* disconnect never enter a log and never consume a seq; a log entry has type
\* presence or cursor only when an 'op' message of that type was submitted, and such
\* a message is logged like any other.
C17_OnlyOpMessagesLogged ==
    [][/\ last'.ev \in {"cursor", "join_room", "disconnect"}
          => \A r \in RoomIds :
                /\ (IF r \in DOMAIN rooms' THEN rooms'[r].ops ELSE <<>>) = LogOf(r)
                /\ SeqOf(rooms', r) = SeqOf(rooms, r)
                /\ received'[r] = received[r]
       /\ \A r \in DOMAIN rooms' :
             /\ Len(rooms'[r].ops) = Len(received'[r])
             /\ \A i \in 1..Len(rooms'[r].ops) :
                   rooms'[r].ops[i].type = received'[r][i].type]_vars

\* the last call was a cursor message that reached another member, in a room whose
\* log holds an 'op' message typed cursor, while the other room's log holds one typed
\* presence
C17_Witness ==
    /\ last.ev = "cursor"
    /\ \E e \in last.emits : e.to # {}
    /\ \E i \in Indices(last.roomId) : LogOf(last.roomId)[i].type = "cursor"
    /\ \E r \in RoomIds \ {last.roomId} :
          \E i \in Indices(r) : LogOf(r)[i].type = "presence"

\* C19: after one drawing gesture of a client (pointerdown, one or more pointermoves,
\* pointerup) has been processed by the server, a single undo request with no target
\* leaves no stroke operation produced by that gesture active.
C19_UndoRemovesGesture ==
    [][\A b \in Browsers :
         LET d == app_draw[b]
             log == LogOf(ROOM_ID)
         IN  (/\ Appends(ROOM_ID)
              /\ Call(ROOM_ID).type = "undo" /\ Untargeted(Call(ROOM_ID))
              /\ last'.socket = b
              /\ app_draw' = app_draw
              /\ ~d.drawing /\ d.moves >= 1 /\ d.produced # {}
              /\ log[Len(log)].opID \in d.produced
              /\ \A i \in 1..Len(log) :
                    log[i].opID \in d.produced => IsActiveStroke(log[i]))
             => \A i \in 1..Len(log) :
                   log[i].opID \in d.produced => ~rooms'[ROOM_ID].ops[i].active]_vars

\* C20: after a newly joined client has processed the history message of its join,
\* the strokes it renders are the strokes that are active in the server's log of the
\* room, whatever the length of that log. (The history message is the only message
\* in flight to the client, so the log has not grown since the join.)
C20_JoinerLoadsFullHistory ==
    [][\A b \in Browsers :
         (/\ b \in sio[ROOM_ID]
          /\ Len(outbox[b]) = 1 /\ outbox[b][1].ev = "history"
          /\ outbox'[b] = <<>>
          /\ closed' = closed)
         => Visible(app_ops'[b])
              = {LogOf(ROOM_ID)[i].opID :
                    i \in {j \in Indices(ROOM_ID) : IsActiveStroke(LogOf(ROOM_ID)[j])}}]_vars

\* C21: a redo submitted without a targetOpID changes no operation's active flag (no
\* search for the most recently undone stroke is made) and is appended with the
\* next seq.
C21_RedoWithoutTarget ==
    [][\A r \in RoomIds :
         (Appends(r) /\ Call(r).type = "redo" /\ Untargeted(Call(r)))
         => /\ AppendedNext(r)
            /\ FlagsKeptExcept(r, {})
            /\ Logged(r).type = "redo"
            /\ Logged(r).active
            /\ TargetOf(Logged(r).payload) = ""]_vars

\* the last call was a redo without a target in a room that holds an undone stroke,
\* which is still inactive
C21_Witness ==
    /\ last.ev = "op" /\ ~last.dropped /\ last.raw.type = "redo" /\ Untargeted(last.raw)
    /\ LET r == last.roomId
       IN  \E i, j \in Indices(r) :
              /\ i < j /\ j < Len(LogOf(r))
              /\ LogOf(r)[i].type = "stroke" /\ ~LogOf(r)[i].active
              /\ LogOf(r)[j].type = "undo" /\ StoredTarget(r, j) = LogOf(r)[i].opID

\* C22: a room, once created, is never removed or reset: a later _ensure on it
\* changes nothing, its log, counter and index never shrink, they are retained when
\* a member (the last one included) disconnects, a later joiner receives the log as
\* history, and the next appended operation continues from the previous seq.
C22_RoomPersists ==
    [][\A r \in DOMAIN rooms :
         /\ r \in DOMAIN rooms'
         /\ Ensure(rooms', r) = rooms'
         /\ rooms'[r].seq >= rooms[r].seq
         /\ Len(rooms'[r].ops) >= Len(rooms[r].ops)
         /\ DOMAIN rooms[r].opMap \subseteq DOMAIN rooms'[r].opMap
         /\ closed' # closed
               => /\ rooms'[r].ops = rooms[r].ops
                  /\ rooms'[r].seq = rooms[r].seq
                  /\ rooms'[r].opMap = rooms[r].opMap
         /\ Appends(r) => Logged(r).seq = rooms[r].seq + 1
         /\ \A b \in Browsers :
               (/\ last'.ev = "join_room" /\ last'.roomId = r
                /\ Len(outbox'[b]) = Len(outbox[b]) + 1)
               => IsLastOf(outbox'[b][Len(outbox'[b])].ops, rooms[r].ops,
                           Min(HistoryLimit, Len(rooms[r].ops)))]_vars

\* the last call was the disconnect of a room's last member, and the room still
\* holds its log and counter
C22_Witness ==
    /\ last.ev = "disconnect"
    /\ \E e \in last.emits : e.room = ROOM_ID /\ e.clients = {}
    /\ ROOM_ID \in DOMAIN rooms
    /\ Len(rooms[ROOM_ID].ops) >= 2
    /\ rooms[ROOM_ID].seq = Len(rooms[ROOM_ID].ops)

\* the entries of room r whose flag the step changes
FlagsChanged(r) ==
    {i \in Indices(r) : rooms'[r].ops[i].active # LogOf(r)[i].active}

\* C23: every appendOp changes the active flag of at most one previously logged
\* operation, an append whose type is neither undo nor redo changes none, and the
\* newly appended operation, whatever its type, is stored with active = TRUE.
C23_AtMostOneFlag ==
    [][\A r \in RoomIds :
         Appends(r)
         => /\ Cardinality(FlagsChanged(r)) <= 1
            /\ Call(r).type \notin {"undo", "redo"} => FlagsChanged(r) = {}
            /\ Len(rooms'[r].ops) = Len(LogOf(r)) + 1
            /\ Logged(r).active = TRUE
            /\ Logged(r).type = Call(r).type]_vars

\* the last call was an undo without a target in a room with three strokes, two of
\* which are still active
C23_Witness ==
    /\ last.ev = "op" /\ ~last.dropped /\ last.raw.type = "undo" /\ Untargeted(last.raw)
    /\ LET r == last.roomId
       IN  /\ Cardinality({i \in Indices(r) : IsActiveStroke(LogOf(r)[i])}) = 2
           /\ Cardinality({i \in Indices(r) : LogOf(r)[i].type = "stroke"}) = 3
           /\ LogOf(r)[Len(LogOf(r))].active

\* the opIDs and seqs of a log, in log order
Stamps(ops) == [k \in 1..Len(ops) |-> [opID |-> ops[k].opID, seq |-> ops[k].seq]]
\* ops is a run of consecutive entries of log
IsSegmentOf(ops, log) ==
    \E start \in 0..Len(log) :
        /\ start + Len(ops) <= Len(log)
        /\ \A k \in 1..Len(ops) : ops[k] = log[start + k]

\* C24: a join_room puts exactly one history message in the joiner's queue, an op
\* appended to a room puts exactly one op message, the logged entry, at the end of the
\* queue of every member; the local log of a client joined to a room is at all times
\* a run of consecutive entries of that room's log, and it ends with the log's last
\* entry once every message sent to the client has been delivered.
C24_HistoryThenOpsInOrder ==
    [][/\ \A b \in Browsers :
            /\ (last'.ev = "join_room" /\ last'.socket = b /\ last' # last)
                  => /\ Len(outbox'[b]) = Len(outbox[b]) + 1
                     /\ SubSeq(outbox'[b], 1, Len(outbox[b])) = outbox[b]
                     /\ outbox'[b][Len(outbox'[b])].ev = "history"
            /\ \A r \in SioRooms :
                  (Appends(r) /\ b \in sio[r])
                     => outbox'[b] = Append(outbox[b], [ev |-> "op", op |-> Logged(r)])
            /\ b \in sio'[ROOM_ID]
                  => IsSegmentOf(Stamps(app_ops'[b]), Stamps(OpsOf(rooms', ROOM_ID)))
            /\ (b \in sio'[ROOM_ID] /\ outbox'[b] = <<>> /\ OpsOf(rooms', ROOM_ID) # <<>>)
                  => /\ app_ops'[b] # <<>>
                     /\ app_ops'[b][Len(app_ops'[b])].opID = Logged(ROOM_ID).opID]_vars

\* C27: whenever an operation is appended to a room, the connection that submitted it
\* is in the room's membership set, and it is among the recipients of the broadcast
\* of that operation.
C27_SubmitterIsMember ==
    [][\A r \in SioRooms :
         Appends(r) =>
            /\ Logged(r).clientId \in MembersOf(rooms, r)
            /\ \A e \in last'.emits : e.ev = "op" => Logged(r).clientId \in e.to]_vars

\* the positions of the local log of b that hold the opID id
LocalAt(b, id) == {k \in 1..Len(app_ops[b]) : app_ops[b][k].opID = id}

\* C25: an op message processed a second time (a step that takes nothing from the
\* client's queue) leaves the client's local log as it was before that delivery: no
\* entry is added and no active flag changes, also when an undo or redo of the same
\* target was applied after the first delivery.
C25_SecondDeliveryNoEffect ==
    [][(last'.ev = "redeliver" /\ outbox' = outbox) => app_ops' = app_ops]_vars

\* an undo reached the client again after a redo of its target had made the stroke
\* visible again
C25_Witness ==
    /\ last.ev = "redeliver"
    /\ \E i \in LocalAt("b1", last.opID) : \E j \in 1..Len(app_ops["b1"]) :
          /\ i < j
          /\ app_ops["b1"][i].type = "undo"
          /\ app_ops["b1"][j].type = "redo"
          /\ TargetOf(app_ops["b1"][j].payload) = TargetOf(app_ops["b1"][i].payload)
          /\ TargetOf(app_ops["b1"][i].payload) \in Visible(app_ops["b1"])

\* C26: once the server has processed every undo request a confirmed Clear click
\* emitted, every stroke that was active in the room's log at the click is inactive,
\* whatever operations of other clients the server processed in between; stated for
\* clicks at which the client's log showed as many active strokes as the room's log.
C26_ClearDeactivatesAll ==
    (/\ clear_req.by # ""
     /\ clear_req.n = Cardinality(clear_req.targets)
     /\ ClearPending = 0)
        => clear_req.targets \cap ActiveStrokes(LogOf(ROOM_ID)) = {}

====
